---- MODULE Spec2Model ----
(***************************************************************************)
(* NbodyIMRI: the leapfrog integrator (simulator.full_step), the adaptive  *)
(* sub-stepping (simulator.adaptive_step), the force evaluation            *)
(* (simulator.update_acceleration, simulator.calc_acc), the macro loop     *)
(* (simulator.run_simulation) and the particle set (particles.xstep,       *)
(* vstep, xstep_out, vstep_out).                                           *)
(*                                                                         *)
(* Numbers.  The program computes in float64 on 3-vectors.  The model      *)
(* keeps one Cartesian component and computes in exact integers, so that   *)
(* "in exact arithmetic" statements can be decided.  A quotient is         *)
(* truncated towards zero (FDiv).  A non-finite value is the value NaN,    *)
(* which every arithmetic operation propagates, as IEEE arithmetic does.   *)
(* The leapfrog coefficients are kept twice: exactly, as linear forms over *)
(* 1, theta, xi, lam, chi (Lin), and numerically in fixed point with Q     *)
(* units per 1 (Coef), which is what the drifts and kicks are applied      *)
(* with.  Times (dt, h) are counted in ticks; dt is a multiple of 2*Q      *)
(* ticks so that every stage length is a whole number of ticks.            *)
(***************************************************************************)
EXTENDS Integers, Sequences, FiniteSets, TLC

----------------------------------------------------------------------------
(* Bounds of the model *)

\* top-level calls the caller makes in one behaviour
MaxCalls == 2
\* largest separation r and softening length r_soft given to calc_acc directly
MaxR == 3
\* largest tracer count N_DM of an initial particle set
MaxNDM == 2
\* largest N_sub_max the caller passes to adaptive_step / run_simulation
MaxNSubMax == 2
\* largest number of macro steps N_step of a run
MaxNStep == 2

----------------------------------------------------------------------------
(* Optional values: Python's None, an attribute that was never assigned,   *)
(* or a value.                                                             *)

NoneV == [tag |-> "None"]
Unset == [tag |-> "unset"]
Some(v) == [tag |-> "val", v |-> v]
IsVal(o) == o.tag = "val"

----------------------------------------------------------------------------
(* Arithmetic *)

\* the non-finite float (0/0, 0*inf), e.g. dx1 /= r1 with r1 = 0
NaN == -(2^30)

Abs(a) == IF a < 0 THEN -a ELSE a

FAdd(a, b) == IF a = NaN \/ b = NaN THEN NaN ELSE a + b

FMul(a, b) == IF a = NaN \/ b = NaN THEN NaN ELSE a * b

FNeg(a) == IF a = NaN THEN NaN ELSE -a

\* a / b, truncated towards zero; 0/0 is NaN
FDiv(a, b) ==
    IF a = NaN \/ b = NaN \/ b = 0 THEN NaN
    ELSE IF (a >= 0) = (b > 0) THEN Abs(a) \div Abs(b)
    ELSE -(Abs(a) \div Abs(b))

\* np.sqrt of a perfect square (the model's softening lengths are whole)
ISqrt(n) == CHOOSE k \in 0..n : k * k <= n /\ (k + 1) * (k + 1) > n

\* ceil(a / b) for b > 0
CeilDiv(a, b) == -((-a) \div b)

RECURSIVE SumSeq(_)
SumSeq(s) == IF s = <<>> THEN 0 ELSE FAdd(Head(s), SumSeq(Tail(s)))

RECURSIVE MinSeq(_)
\* np.min of a non-empty array: NaN if any entry is NaN
MinSeq(s) ==
    IF Len(s) = 1 THEN s[1]
    ELSE LET m == MinSeq(Tail(s)) IN
         IF s[1] = NaN \/ m = NaN THEN NaN
         ELSE IF s[1] < m THEN s[1] ELSE m

----------------------------------------------------------------------------
(* Leapfrog stepsize parameters, simulator.py lines 27-34 *)

\* fixed-point units per 1 of the numeric coefficients
Q == 10
\* theta = 1/(2 - 2**(1/3)) = 1.3512...
theta == 14
\* xi = +0.1786178958448091
xi == 2
\* lam = -0.2123418310626054
lam == -2
\* chi = -0.06626458266981849
chi == -1

\* the stage length (one + th*theta + x*xi + l*lam + c*chi) * dt / 2
Lin(one, th, x, l, c) == [one |-> one, th |-> th, xi |-> x, lam |-> l, chi |-> c]

\* a linear form in fixed point: Coef(c) / (2*Q) is the factor of dt
Coef(c) == c.one * Q + c.th * theta + c.xi * xi + c.lam * lam + c.chi * chi

\* StageH with the sign of dt lost
StageHUnsigned(c, dt) == (Coef(c) * (IF dt < 0 THEN -dt ELSE dt)) \div (2 * Q)

\* the stage length in ticks
StageH(c, dt) == (Coef(c) * dt) \div (2 * Q)

Drift(c, nargs) == [op |-> "xstep", c |-> c, nargs |-> nargs]
Kick(c, nargs) == [op |-> "vstep", c |-> c, nargs |-> nargs]
Force == [op |-> "update_acceleration", c |-> Lin(0, 0, 0, 0, 0), nargs |-> 0]

Methods == {"DKD", "KDK", "FR", "PEFRL"}

\* what a caller passes as `method`: a name full_step tests, or another string
MethodArgs == Methods \cup {"no_such_scheme"}

\* the statements of full_step's branches, in order; nargs is the number of
\* arguments the call passes (h alone, or h and inds)

\* lines 116-120
DKD_stages ==
    << Drift(Lin(1, 0, 0, 0, 0), 2), Force, Kick(Lin(2, 0, 0, 0, 0), 2),
       Drift(Lin(1, 0, 0, 0, 0), 2) >>

\* lines 122-128
KDK_stages ==
    << Force, Kick(Lin(1, 0, 0, 0, 0), 2), Drift(Lin(2, 0, 0, 0, 0), 2),
       Force, Kick(Lin(1, 0, 0, 0, 0), 2) >>

\* lines 131-141
FR_stages ==
    << Drift(Lin(0, 1, 0, 0, 0), 1), Force, Kick(Lin(0, 2, 0, 0, 0), 1),
       Drift(Lin(1, -1, 0, 0, 0), 1), Force, Kick(Lin(2, -4, 0, 0, 0), 1),
       Drift(Lin(1, -1, 0, 0, 0), 1), Force, Kick(Lin(0, 2, 0, 0, 0), 1),
       Drift(Lin(0, 1, 0, 0, 0), 1) >>

\* lines 144-157
PEFRL_stages ==
    << Drift(Lin(0, 0, 2, 0, 0), 1), Force, Kick(Lin(1, 0, 0, -2, 0), 1),
       Drift(Lin(0, 0, 0, 0, 2), 1), Force, Kick(Lin(0, 0, 0, 2, 0), 1),
       Drift(Lin(2, 0, -4, 0, -4), 1), Force, Kick(Lin(0, 0, 0, 2, 0), 1),
       Drift(Lin(0, 0, 0, 0, 2), 1), Force, Kick(Lin(1, 0, 0, -2, 0), 1),
       Drift(Lin(0, 0, 2, 0, 0), 1) >>

\* Scheme with FR's second and PEFRL's third force evaluation left out
SchemeStaleForce(method) ==
    CASE method = "DKD" -> DKD_stages
      [] method = "KDK" -> KDK_stages
      [] method = "FR" -> SubSeq(FR_stages, 1, 4) \o SubSeq(FR_stages, 6, 10)
      [] method = "PEFRL" -> SubSeq(PEFRL_stages, 1, 7) \o SubSeq(PEFRL_stages, 9, 13)
      [] OTHER -> << >>

\* the branch of full_step taken for `method`; no branch for another name
Scheme(method) ==
    CASE method = "DKD" -> DKD_stages
      [] method = "KDK" -> KDK_stages
      [] method = "FR" -> FR_stages
      [] method = "PEFRL" -> PEFRL_stages
      [] OTHER -> << >>

----------------------------------------------------------------------------
(* The particle set, particles.py *)

\* units.G_N, in the model's units
G_N == 8

\* a + b on arrays of equal length
AddSeq(a, b) == [i \in 1..Len(a) |-> FAdd(a[i], b[i])]

\* a += b*h on arrays of equal length
AddScaled(a, b, h) == [i \in 1..Len(a) |-> FAdd(a[i], FMul(b[i], h))]

\* particles.xstep(h) and particles.vstep(h) take h and nothing else
AcceptsArgs(nargs) == nargs = 1

\* xstep without the test of dynamic_BH
xstepAlways(q, h) ==
    [q EXCEPT !.xBH1 = FAdd(@, FMul(q.vBH1, h)),
              !.xBH2 = FAdd(@, FMul(q.vBH2, h)),
              !.xDM = AddScaled(@, q.vDM, h)]

\* particles.xstep(h)
xstep(q, h) ==
    [q EXCEPT !.xBH1 = IF q.dynamic_BH THEN FAdd(@, FMul(q.vBH1, h)) ELSE @,
              !.xBH2 = FAdd(@, FMul(q.vBH2, h)),
              !.xDM = AddScaled(@, q.vDM, h)]

\* particles.vstep(h) raises when the accelerations were never computed:
\* dvdtBH1 and dvdtBH2 are None and dvdtDM is no attribute until
\* update_acceleration has run
vstep_raises(q) ==
    IF q.dynamic_BH /\ ~IsVal(q.dvdtBH1) THEN "TypeError"
    ELSE IF ~IsVal(q.dvdtBH2) THEN "TypeError"
    ELSE IF ~IsVal(q.dvdtDM) THEN "AttributeError"
    ELSE "none"

\* particles.vstep(h), where it does not raise
vstep(q, h) ==
    [q EXCEPT !.vBH1 = IF q.dynamic_BH THEN FAdd(@, FMul(q.dvdtBH1.v, h)) ELSE @,
              !.vBH2 = FAdd(@, FMul(q.dvdtBH2.v, h)),
              !.vDM = AddScaled(@, q.dvdtDM.v, h)]

\* particles.xstep_out(h): the bodies are drifted, then the outer tracers;
\* with xDM_out = None the last statement raises after the bodies moved
xstep_out_raises(q) == IF IsVal(q.xDM_out) THEN "none" ELSE "TypeError"

xstep_out(q, h) ==
    [q EXCEPT !.xBH1 = IF q.dynamic_BH THEN FAdd(@, FMul(q.vBH1, h)) ELSE @,
              !.xBH2 = FAdd(@, FMul(q.vBH2, h)),
              !.xDM_out = IF IsVal(@) THEN Some(AddScaled(@.v, q.vDM_out.v, h)) ELSE @]

\* particles.vstep_out(h): nothing assigns dvdtDM_out, so the last statement
\* raises AttributeError; the bodies are kicked before it when their
\* accelerations are set, and the kick of a body raises TypeError when its
\* acceleration is None
vstep_out_raises(q) ==
    IF q.dynamic_BH /\ ~IsVal(q.dvdtBH1) THEN "TypeError"
    ELSE IF ~IsVal(q.dvdtBH2) THEN "TypeError"
    ELSE "AttributeError"

vstep_out(q, h) ==
    IF q.dynamic_BH /\ ~IsVal(q.dvdtBH1) THEN q
    ELSE IF ~IsVal(q.dvdtBH2)
         THEN [q EXCEPT !.vBH1 = IF q.dynamic_BH THEN FAdd(@, FMul(q.dvdtBH1.v, h)) ELSE @]
         ELSE [q EXCEPT !.vBH1 = IF q.dynamic_BH THEN FAdd(@, FMul(q.dvdtBH1.v, h)) ELSE @,
                        !.vBH2 = FAdd(@, FMul(q.dvdtBH2.v, h))]

----------------------------------------------------------------------------
(* The force model, simulator.calc_acc and simulator.update_acceleration *)

\* the kernels of calc_acc the model computes ("plummer2" and "uniform_old"
\* need fractional powers and are left out)
Kernels == {"plummer", "uniform", "truncate", "empty_shell"}

\* the final else of calc_acc: raise ValueError("Invalid softening method:")
calc_acc_raises(method) == method \notin Kernels

\* dx / r, the unit vector along one axis; 0/0 is NaN
Unit(dx) == IF dx = NaN \/ dx = 0 THEN NaN ELSE IF dx > 0 THEN 1 ELSE -1

\* x <= 1 and x < 1 for x = sqrt(r_sq/r_soft_sq); with r_soft_sq = 0 the
\* ratio is inf or NaN and both comparisons are False, as with r_sq NaN
XLeq1(r_sq, r_soft_sq) == r_sq # NaN /\ r_soft_sq > 0 /\ r_sq <= r_soft_sq

XLt1(r_sq, r_soft_sq) == r_sq # NaN /\ r_soft_sq > 0 /\ r_sq < r_soft_sq

\* -G_N*M_eff*dx*(r_sq)**-1
Newtonian(M_eff, dx, r_sq) == FDiv(FNeg(FMul(G_N * M_eff, dx)), r_sq)

\* calc_acc for one tracer; dx is the unit vector
calc_acc(M_eff, dx, r_sq, r_soft_sq, method) ==
    CASE method = "plummer" ->
           FDiv(FNeg(FMul(G_N * M_eff, dx)), FAdd(r_sq, r_soft_sq))
      [] method = "uniform" ->
           IF XLeq1(r_sq, r_soft_sq)
           THEN FDiv(FNeg(FMul(FMul(G_N * M_eff, dx), ISqrt(r_sq))),
                     ISqrt(r_soft_sq) * r_soft_sq)
           ELSE Newtonian(M_eff, dx, r_sq)
      [] method = "truncate" ->
           FDiv(FNeg(FMul(G_N * M_eff, dx)),
                IF r_sq = NaN THEN NaN
                ELSE IF r_sq < r_soft_sq THEN r_soft_sq ELSE r_sq)
      [] method = "empty_shell" ->
           IF XLt1(r_sq, r_soft_sq)
           THEN FMul(Newtonian(M_eff, dx, r_sq), 0)
           ELSE Newtonian(M_eff, dx, r_sq)
      [] OTHER -> NaN

\* the primary's own mass whatever the flag
M1_own(q) == q.M_1

M1_eff(q) == IF q.dynamic_BH THEN q.M_1 ELSE q.M_1 + q.M_2

M2_eff(q) == IF q.dynamic_BH THEN q.M_2 ELSE FDiv(q.M_1 * q.M_2, q.M_1 + q.M_2)

Sep(xs, xb) == [i \in 1..Len(xs) |-> FAdd(xs[i], FNeg(xb))]

\* r_sq, saturated: a square of 2^30 or more is kept as 2^30.  r_sq is only
\* compared with r_soft_sq and divides G_N*M_eff, both far below 2^30, so
\* every result is the one the exact square gives
Sq(d) == IF d = NaN THEN NaN ELSE IF Abs(d) >= 2^15 THEN 2^30 ELSE d * d

\* r = sqrt(r_sq), along one axis
Norm(d) == IF d = NaN THEN NaN ELSE Abs(d)

\* acc_DM1: the primary's kernel is always "uniform" (soft_method1)
acc_DM1(q, r_soft_sq1) ==
    LET dx1 == Sep(q.xDM, q.xBH1) IN
    [i \in 1..Len(dx1) |->
        calc_acc(M1_eff(q), Unit(dx1[i]), Sq(dx1[i]), r_soft_sq1, "uniform")]

\* acc_DM2: 0.0 when M_2 = 0
acc_DM2(q, r_soft_sq2, soft_method) ==
    LET dx2 == Sep(q.xDM, q.xBH2) IN
    [i \in 1..Len(dx2) |->
        IF q.M_2 > 0
        THEN calc_acc(M2_eff(q), Unit(dx2[i]), Sq(dx2[i]), r_soft_sq2, soft_method)
        ELSE 0]

\* acc_BH = -G_N*M2_eff*dx12*(r12_sq)**-1.5, 0.0 when M_2 = 0
acc_BH(q) ==
    LET dx12 == FAdd(q.xBH1, FNeg(q.xBH2)) IN
    IF q.M_2 > 0
    THEN FDiv(FNeg(FMul(G_N * M2_eff(q), Unit(dx12))), Sq(dx12))
    ELSE 0

\* sum_i M_DM[i]*acc[i]
Reaction(q, acc) == SumSeq([i \in 1..Len(acc) |-> FMul(q.M_DM[i], acc[i])])

\* the particle set after update_acceleration (lines 253-266)
update_acceleration(q, r_soft_sq1, r_soft_sq2, soft_method) ==
    LET a1 == acc_DM1(q, r_soft_sq1)
        a2 == acc_DM2(q, r_soft_sq2, soft_method)
        aB == acc_BH(q)
    IN [q EXCEPT
         !.dvdtBH1 = Some(IF q.dynamic_BH
                          THEN FAdd(aB, FNeg(FDiv(Reaction(q, a1), M1_eff(q))))
                          ELSE 0),
         !.dvdtBH2 = Some(IF q.M_2 > 0
                          THEN FAdd(FNeg(FDiv(FMul(M1_eff(q), aB), M2_eff(q))),
                                    FNeg(FDiv(Reaction(q, a2), M2_eff(q))))
                          ELSE 0),
         !.dvdtDM = Some(AddSeq(a1, a2))]

\* self.r1_min after update_acceleration: np.min(r1) when N_DM > 0
r1_min_after(q, old) ==
    IF q.N_DM > 0
    THEN Some(MinSeq([i \in 1..Len(q.xDM) |-> Norm(FAdd(q.xDM[i], FNeg(q.xBH1)))]))
    ELSE old

\* self.r2_min after update_acceleration: np.min(r2) when M_2 > 0 and N_DM > 0
r2_min_after(q, old) ==
    IF q.M_2 > 0 /\ q.N_DM > 0
    THEN Some(MinSeq([i \in 1..Len(q.xDM) |-> Norm(FAdd(q.xDM[i], FNeg(q.xBH2)))]))
    ELSE old

\* np.min(r2) of lines 236-239 at the positions q has: the smallest distance
\* between a tracer and the secondary
r2_current(q) ==
    Some(MinSeq([i \in 1..Len(q.xDM) |-> Norm(FAdd(q.xDM[i], FNeg(q.xBH2)))]))

\* update_acceleration raises where calc_acc does: the secondary's kernel is
\* looked up only when M_2 > 0
update_acceleration_raises(q, soft_method) ==
    IF q.M_2 > 0 /\ calc_acc_raises(soft_method) THEN "ValueError" ELSE "none"

----------------------------------------------------------------------------
(* State *)

VARIABLES
    p,            \* self.p, the simulator's particle set
    p0,           \* the caller's particle set as it was given to the constructor
    r_soft_sq1,   \* self.r_soft_sq1
    r_soft_sq2,   \* self.r_soft_sq2
    soft_method,  \* self.soft_method
    check_state,  \* self.check_state: "None" or "hook"
    r1_min,       \* self.r1_min
    r2_min,       \* self.r2_min
    current_step, \* self.current_step
    finished,     \* self.finished
    fs,           \* the active call of full_step, or NoFrame
    ad,           \* the active call of adaptive_step, or NoFrame
    run,          \* the active call of run_simulation, or NoFrame
    err,          \* the exception that ended the last top-level call, or "none"
    calls,        \* top-level calls made so far
    last,         \* the last top-level call: its name and arguments
    log,          \* the statements the current (or last) full_step has executed
    x_acc,        \* the positions update_acceleration last computed from
    pre,          \* the particle set when the last top-level call was made
    pre2,         \* the particle set when the call before that one was made
    prev,         \* the top-level call before the last one
    sub,          \* the last adaptive_step: its plan and the full_steps it completed
    lists,        \* the histories run_simulation allocates and fills
    obs,          \* counts of what the last run_simulation has done
    session,      \* what the caller calls: "steps", "stages" or "run"
    probe,        \* a direct call of calc_acc: its arguments and what it returned
    scheme        \* the scheme the caller passes as `method`

vars == << p, p0, r_soft_sq1, r_soft_sq2, soft_method, check_state, r1_min, r2_min,
           current_step, finished, fs, ad, run, err, calls, last, log, x_acc,
           pre, pre2, prev, sub, lists, obs, session, probe, scheme >>

simVars == << p0, r_soft_sq1, r_soft_sq2, soft_method, check_state, session, probe,
             scheme >>

runVars == << current_step, finished, lists, obs >>

NoFrame == [tag |-> "none"]

Idle == fs.tag = "none" /\ ad.tag = "none" /\ run.tag = "none"

Positions(q) == << q.xBH1, q.xBH2, q.xDM >>

----------------------------------------------------------------------------
(* Initial states: particles.__init__ followed by the caller placing the   *)
(* bodies and tracers, then simulator.__init__ (a deep copy of the set)    *)

\* the primary's mass
M_1_value == 2
\* the mass of one tracer
M_DM_value == 2

\* where tracer i starts: tracer 1 next to the secondary or on top of it,
\* the others between the bodies.  The sets with tracer 1 off the secondary
\* went through initialize_spike, which leaves copies of the tracers outside
\* the softening radius in xDM_out, vDM_out
TracerX(i, onTop) == IF i = 1 THEN (IF onTop THEN 6 ELSE 9) ELSE 2 + i

ParticleSets ==
    { [ id |-> "particle_set", M_1 |-> M_1_value, M_2 |-> m2, N_DM |-> n,
        M_DM |-> [i \in 1..n |-> M_DM_value],
        xBH1 |-> 0, vBH1 |-> -1, xBH2 |-> 6, vBH2 |-> v2,
        xDM |-> [i \in 1..n |-> TracerX(i, onTop)],
        vDM |-> [i \in 1..n |-> 0],
        dvdtBH1 |-> NoneV, dvdtBH2 |-> NoneV, dvdtDM |-> Unset,
        dynamic_BH |-> dyn,
        xDM_out |-> IF n > 0 /\ ~onTop THEN Some([i \in 1..n |-> TracerX(i, onTop)])
                    ELSE NoneV,
        vDM_out |-> IF n > 0 /\ ~onTop THEN Some([i \in 1..n |-> 0]) ELSE NoneV,
        dvdtDM_out |-> Unset ] :
      m2 \in {0, 2}, n \in 0..MaxNDM, v2 \in {1}, onTop \in BOOLEAN,
      dyn \in BOOLEAN }

\* simulator.__init__: soft_method and r_soft_sq2 as the caller gives them
\* (the defaults are "empty_shell" and 0.0), r_soft_sq1 = r_soft_sq2
SoftConfigs ==
    { [soft_method |-> "empty_shell", r_soft_sq2 |-> 0],
      [soft_method |-> "uniform", r_soft_sq2 |-> 4],
      [soft_method |-> "no_such_kernel", r_soft_sq2 |-> 0] }

\* self.p = particle_set: the caller's object itself
SameObject(q) == q

\* copy.deepcopy(particle_set), line 58: another object (and other arrays)
\* with the same contents
deepcopy(q) == [q EXCEPT !.id = "copy"]

\* the caller's particle set now: what the simulator's steps made of it if
\* self.p is that object, and as it was given otherwise
particle_set == IF p.id = p0.id THEN p ELSE p0

NoLists == [N_out |-> 0, N_save |-> 0, ts |-> << >>, M1_list |-> << >>,
            M2_list |-> << >>, xBH1_list |-> << >>, vBH1_list |-> << >>,
            xBH2_list |-> << >>, vBH2_list |-> << >>]

\* what the loop of run_simulation has done: hook calls, macro steps begun
\* (full, adaptive) and completed (steps), iterations completed (iters), the
\* writes of each history slot, the bodies at the start of each iteration
\* begun, and for the latest history write its iteration and the macro steps
\* completed before it
NoObs == [N_step |-> 0, hooks |-> 0, full |-> 0, adaptive |-> 0, steps |-> 0,
          iters |-> 0, writes |-> << >>, starts |-> << >>, saved_it |-> -1,
          saved_steps |-> 0]

NoSub == [N_sub |-> 0, N_sub_max |-> 0, dt |-> 0, dt_sub |-> 0, dt_opt |-> 0,
          tracers |-> FALSE, done |-> 0, returned |-> FALSE,
          asked |-> FALSE, r2 |-> NoneV, r2_now |-> NoneV]

\* no direct call of calc_acc
NoProbe == [tag |-> "none"]

Init ==
    /\ probe = NoProbe
    /\ session \in {"steps", "stages", "run"}
    /\ scheme \in MethodArgs
    /\ p0 \in ParticleSets
    /\ p = deepcopy(p0)
    /\ \E sc \in SoftConfigs :
          /\ soft_method = sc.soft_method
          /\ r_soft_sq2 = sc.r_soft_sq2
          /\ (p.M_2 = 0 => sc.soft_method = "empty_shell")
    /\ r_soft_sq1 = r_soft_sq2
    /\ check_state \in {"None", "hook"}
    /\ (check_state = "hook" => session = "run")
    /\ (session = "run" => /\ p.N_DM \in {0, MaxNDM}
                           /\ (p.N_DM > 0 => IsVal(p.xDM_out))
                           /\ soft_method # "uniform")
    /\ lists = NoLists
    /\ obs = NoObs
    /\ r1_min = Unset
    /\ r2_min = Unset
    /\ current_step = Unset
    /\ finished = FALSE
    /\ fs = NoFrame
    /\ ad = NoFrame
    /\ run = NoFrame
    /\ err = "none"
    /\ calls = 0
    /\ last = NoFrame
    /\ prev = NoFrame
    /\ log = << >>
    /\ x_acc = NoneV
    /\ pre = p
    /\ pre2 = p
    /\ sub = NoSub

----------------------------------------------------------------------------
(* Bookkeeping shared by the actions *)

\* an exception leaves every active call
Raise(e) ==
    /\ fs' = NoFrame
    /\ ad' = NoFrame
    /\ run' = NoFrame
    /\ err' = e

\* the caller makes a top-level call
TopCall(c) ==
    /\ Idle
    /\ calls < MaxCalls
    /\ calls' = calls + 1
    /\ last' = c
    /\ prev' = last
    /\ pre' = p
    /\ pre2' = pre

NoTopCall == UNCHANGED << calls, last, prev, pre, pre2 >>

FullStepFrame(dt, method, inds) ==
    [tag |-> "full_step", dt |-> dt, method |-> method, inds |-> inds,
     todo |-> Scheme(method)]

----------------------------------------------------------------------------
(* The statements of one iteration of run_simulation's loop, in order:     *)
(* the check_state call (lines 402-403), the history write (405-416), the  *)
(* step (438-441) and the increment of current_step (445)                  *)

\* what a history entry takes from the state (lines 409-416)
Bodies(q) == << q.M_1, q.M_2, q.xBH1, q.vBH1, q.xBH2, q.vBH2 >>

\* the loop with the history write after the step
LoopOrderStepFirst == << "hook", "step", "save", "incr" >>

\* the loop with the check_state call after the step
LoopOrderHookLast == << "save", "step", "hook", "incr" >>

LoopOrder == << "hook", "save", "step", "incr" >>

\* a loop that leaves one iteration early
LoopEndsEarly(r) == r.it + 1 >= r.N_step

\* line 399: for it in range(N_step) is exhausted
LoopEnds(r) == r.it >= r.N_step

\* the statement after the one at run.pc; after the last one the next
\* iteration begins
RunAdvance(r) ==
    IF r.pc = Len(LoopOrder) THEN [r EXCEPT !.pc = 1, !.it = @ + 1]
    ELSE [r EXCEPT !.pc = @ + 1]

AtStatement(name) == run.tag = "run_simulation" /\ Idle = FALSE /\ fs = NoFrame
                     /\ ad = NoFrame /\ ~LoopEnds(run)
                     /\ LoopOrder[run.pc] = name

----------------------------------------------------------------------------
(* simulator.full_step(dt, method, inds), one statement at a time *)

StepDts == {2 * Q, -2 * Q}

\* inds: None, or a mask that keeps tracer 1 only
IndsValues == {NoneV, Some({1})}

CallFullStep(dt, method, inds) ==
    /\ session \in {"steps", "stages"}
    /\ (session = "stages" \/ dt < 0) => inds = NoneV
    /\ session = "stages" => dt > 0
    /\ TopCall([name |-> "full_step", dt |-> dt, method |-> method, inds |-> inds])
    /\ fs' = FullStepFrame(dt, method, inds)
    /\ err' = "none"
    /\ log' = << >>
    /\ sub' = NoSub
    /\ UNCHANGED << p, simVars, r1_min, r2_min, runVars, ad, run, x_acc >>

InFullStep == fs.tag = "full_step" /\ fs.todo # << >>

Logged(st) == Append(log, [op |-> st.op, c |-> st.c, h |-> StageH(st.c, fs.dt)])

\* self.p.xstep(h)
DoXstep ==
    /\ InFullStep
    /\ LET st == Head(fs.todo) IN
        /\ st.op = "xstep"
        /\ AcceptsArgs(st.nargs)
        /\ p' = xstep(p, StageH(st.c, fs.dt))
        /\ log' = Logged(st)
    /\ fs' = [fs EXCEPT !.todo = Tail(@)]
    /\ NoTopCall
    /\ UNCHANGED << simVars, r1_min, r2_min, runVars, ad, run, err,
                    x_acc, sub >>

\* self.p.vstep(h)
DoVstep ==
    /\ InFullStep
    /\ LET st == Head(fs.todo) IN
        /\ st.op = "vstep"
        /\ AcceptsArgs(st.nargs)
        /\ vstep_raises(p) = "none"
        /\ p' = vstep(p, StageH(st.c, fs.dt))
        /\ log' = Logged(st)
    /\ fs' = [fs EXCEPT !.todo = Tail(@)]
    /\ NoTopCall
    /\ UNCHANGED << simVars, r1_min, r2_min, runVars, ad, run, err,
                    x_acc, sub >>

\* self.update_acceleration()
DoUpdateAcceleration ==
    /\ InFullStep
    /\ LET st == Head(fs.todo) IN
        /\ st.op = "update_acceleration"
        /\ update_acceleration_raises(p, soft_method) = "none"
        /\ log' = Logged(st)
    /\ p' = update_acceleration(p, r_soft_sq1, r_soft_sq2, soft_method)
    /\ r1_min' = r1_min_after(p, r1_min)
    /\ r2_min' = r2_min_after(p, r2_min)
    /\ x_acc' = Some(Positions(p))
    /\ fs' = [fs EXCEPT !.todo = Tail(@)]
    /\ NoTopCall
    /\ UNCHANGED << simVars, runVars, ad, run, err, sub >>

\* xstep(h, inds) or vstep(h, inds): TypeError, the methods take h alone
StepTypeError ==
    /\ InFullStep
    /\ LET st == Head(fs.todo) IN
        /\ st.op \in {"xstep", "vstep"}
        /\ ~AcceptsArgs(st.nargs)
    /\ Raise("TypeError")
    /\ NoTopCall
    /\ UNCHANGED << p, simVars, r1_min, r2_min, runVars, log, x_acc, sub >>

\* update_acceleration raises in calc_acc (line 241), after r1_min and
\* r2_min were assigned and before any acceleration of the set is
ForceValueError ==
    /\ InFullStep
    /\ Head(fs.todo).op = "update_acceleration"
    /\ update_acceleration_raises(p, soft_method) # "none"
    /\ r1_min' = r1_min_after(p, r1_min)
    /\ r2_min' = r2_min_after(p, r2_min)
    /\ Raise(update_acceleration_raises(p, soft_method))
    /\ NoTopCall
    /\ UNCHANGED << p, simVars, runVars, log, x_acc, sub >>

\* full_step returns to adaptive_step, to run_simulation or to the caller
FullStepReturn ==
    /\ fs.tag = "full_step"
    /\ fs.todo = << >>
    /\ fs' = NoFrame
    /\ IF ad.tag # "none"
       THEN /\ ad' = [ad EXCEPT !.i = @ + 1]
            /\ sub' = [sub EXCEPT !.done = @ + 1]
            /\ run' = run
       ELSE /\ ad' = ad
            /\ sub' = sub
            /\ run' = IF run.tag # "none" THEN RunAdvance(run) ELSE run
    /\ obs' = IF ad.tag = "none" /\ run.tag # "none"
              THEN [obs EXCEPT !.steps = @ + 1] ELSE obs
    /\ NoTopCall
    /\ UNCHANGED << p, simVars, r1_min, r2_min, current_step, finished, lists, err,
                    log, x_acc >>

----------------------------------------------------------------------------
(* The particle set's own operations, called by the caller *)

StageHs == {1}

CallXstep(h) ==
    /\ session = "stages"
    /\ TopCall([name |-> "xstep", h |-> h])
    /\ p' = xstep(p, h)
    /\ err' = "none"
    /\ UNCHANGED << simVars, r1_min, r2_min, runVars, fs, ad, run,
                    log, x_acc, sub >>

CallVstep(h) ==
    /\ session = "stages"
    /\ TopCall([name |-> "vstep", h |-> h])
    /\ p' = IF vstep_raises(p) = "none" THEN vstep(p, h) ELSE p
    /\ err' = vstep_raises(p)
    /\ UNCHANGED << simVars, r1_min, r2_min, runVars, fs, ad, run,
                    log, x_acc, sub >>

CallXstepOut(h) ==
    /\ session = "stages"
    /\ TopCall([name |-> "xstep_out", h |-> h])
    /\ p' = xstep_out(p, h)
    /\ err' = xstep_out_raises(p)
    /\ UNCHANGED << simVars, r1_min, r2_min, runVars, fs, ad, run,
                    log, x_acc, sub >>

CallVstepOut(h) ==
    /\ session = "stages"
    /\ TopCall([name |-> "vstep_out", h |-> h])
    /\ p' = vstep_out(p, h)
    /\ err' = vstep_out_raises(p)
    /\ UNCHANGED << simVars, r1_min, r2_min, runVars, fs, ad, run,
                    log, x_acc, sub >>

CallUpdateAcceleration ==
    /\ session \in {"steps", "stages"}
    /\ TopCall([name |-> "update_acceleration"])
    /\ err' = update_acceleration_raises(p, soft_method)
    /\ p' = IF update_acceleration_raises(p, soft_method) = "none"
            THEN update_acceleration(p, r_soft_sq1, r_soft_sq2, soft_method)
            ELSE p
    /\ r1_min' = r1_min_after(p, r1_min)
    /\ r2_min' = r2_min_after(p, r2_min)
    /\ x_acc' = IF update_acceleration_raises(p, soft_method) = "none"
                THEN Some(Positions(p)) ELSE x_acc
    /\ UNCHANGED << simVars, runVars, fs, ad, run, log, sub >>

----------------------------------------------------------------------------
(* simulator.adaptive_step(dt, method, eta, N_sub_max) *)

\* 2*pi, in fixed point
TwoPiQ == 63

RECURSIVE Fact(_)
Fact(n) == IF n <= 1 THEN 1 ELSE n * Fact(n - 1)

\* the macro step of the adaptive calls: every dt/N_sub with N_sub up to
\* MaxNSubMax is a multiple of 2*Q ticks
AdaptiveDt == 2 * Q * Fact(MaxNSubMax)

\* calc_dt_opt: eta*(2*np.pi*np.sqrt(r**3/(u.G_N*M))), with
\* sqrt(r**3/(G_N*M)) computed as r*sqrt(r/(G_N*M)) in fixed point
\* (r2_min is a number only when M_2 > 0, so M = 0 is not reached)
\* and saturated at 2^30 for r of 2^15 or more: dt_opt is only compared with
\* dt and divides dt, which is far below it
calc_dt_opt(r, M, eta) ==
    IF r = NaN \/ M = 0 THEN NaN
    ELSE IF r >= 2^15 THEN eta * (2^30 \div Abs(eta))
    ELSE eta * ((((TwoPiQ * ISqrt((Q * Q * r) \div (G_N * M))) \div Q) * r) \div Q)

\* N_sub without the cap
N_sub_uncapped(dt, dt_opt, N_sub_max) == CeilDiv(dt, dt_opt)

\* lines 93-95: N_sub = int(np.ceil(dt/dt_opt)), capped by N_sub_max
N_sub_of(dt, dt_opt, N_sub_max) ==
    IF CeilDiv(dt, dt_opt) > N_sub_max THEN N_sub_max ELSE CeilDiv(dt, dt_opt)

AdaptiveFrame(dt, method, eta, N_sub_max, dt_opt, N_sub) ==
    [tag |-> "adaptive_step", dt |-> dt, method |-> method, eta |-> eta,
     N_sub_max |-> N_sub_max, dt_opt |-> dt_opt, N_sub |-> N_sub,
     dt_sub |-> FDiv(dt, N_sub), i |-> 0]

\* lines 78-97 of adaptive_step: up to the first call of full_step.  It sets
\* p, r1_min, r2_min, x_acc, ad, fs, run, err and sub.  sub.asked tells that
\* line 88 was reached, sub.r2 is the self.r2_min it read there and sub.r2_now
\* the smallest tracer-secondary distance of the state at that moment.
AdaptiveBegin(dt, method, eta, N_sub_max) ==
    LET needForce == p.N_DM > 0 /\ r2_min = NoneV
        raised    == IF needForce THEN update_acceleration_raises(p, soft_method)
                     ELSE "none"
        q   == IF needForce /\ raised = "none"
               THEN update_acceleration(p, r_soft_sq1, r_soft_sq2, soft_method)
               ELSE p
        r1  == IF needForce THEN r1_min_after(p, r1_min) ELSE r1_min
        r2  == IF needForce THEN r2_min_after(p, r2_min) ELSE r2_min
        dt_opt == IF IsVal(r2) THEN calc_dt_opt(r2.v, p.M_2, eta) ELSE NaN
        exc == IF p.N_DM = 0 THEN "none"
               \* self.r2_min was never assigned
               ELSE IF r2_min = Unset THEN "AttributeError"
               ELSE IF raised # "none" THEN raised
               \* None**3
               ELSE IF ~IsVal(r2) THEN "TypeError"
               \* int(np.ceil(dt/nan))
               ELSE IF dt_opt = NaN THEN "ValueError"
               \* int(np.ceil(dt/0.0)) = int(inf)
               ELSE IF dt_opt < dt /\ dt_opt = 0 THEN "OverflowError"
               ELSE "none"
        N_sub == IF p.N_DM = 0 \/ dt_opt >= dt THEN 1
                 ELSE N_sub_of(dt, dt_opt, N_sub_max)
        asked == p.N_DM > 0 /\ r2_min # Unset /\ raised = "none"
        now   == IF p.N_DM > 0 THEN r2_current(p) ELSE NoneV
    IN
    /\ p' = q
    /\ r1_min' = r1
    /\ r2_min' = r2
    /\ x_acc' = IF needForce /\ raised = "none" THEN Some(Positions(p)) ELSE x_acc
    /\ IF exc # "none"
       THEN /\ Raise(exc)
            /\ sub' = [NoSub EXCEPT !.asked = asked,
                                    !.r2 = IF asked THEN r2 ELSE NoneV,
                                    !.r2_now = IF asked THEN now ELSE NoneV]
       ELSE /\ ad' = AdaptiveFrame(dt, method, eta, N_sub_max, dt_opt, N_sub)
            /\ sub' = [N_sub |-> N_sub, N_sub_max |-> N_sub_max, dt |-> dt,
                       dt_sub |-> FDiv(dt, N_sub), dt_opt |-> dt_opt,
                       tracers |-> p.N_DM > 0, done |-> 0, returned |-> FALSE,
                       asked |-> asked, r2 |-> IF asked THEN r2 ELSE NoneV,
                       r2_now |-> now]
            /\ err' = "none"
            /\ UNCHANGED << fs, run >>

EtaValues == {1, 4}

CallAdaptiveStep(dt, method, eta, N_sub_max) ==
    /\ session = "steps"
    /\ TopCall([name |-> "adaptive_step", dt |-> dt, method |-> method, eta |-> eta,
                N_sub_max |-> N_sub_max])
    /\ AdaptiveBegin(dt, method, eta, N_sub_max)
    /\ log' = << >>
    /\ UNCHANGED << simVars, runVars >>

\* the next self.full_step(dt_sub, method) of the loop (or the only one)
AdaptiveSubStep ==
    /\ ad.tag = "adaptive_step"
    /\ fs = NoFrame
    /\ ad.i < ad.N_sub
    /\ fs' = FullStepFrame(ad.dt_sub, ad.method, NoneV)
    /\ log' = << >>
    /\ NoTopCall
    /\ UNCHANGED << p, simVars, r1_min, r2_min, runVars, ad, run, err, x_acc, sub >>

\* adaptive_step returns to run_simulation or to the caller
AdaptiveReturn ==
    /\ ad.tag = "adaptive_step"
    /\ fs = NoFrame
    /\ ad.i >= ad.N_sub
    /\ ad' = NoFrame
    /\ run' = IF run.tag # "none" THEN RunAdvance(run) ELSE run
    /\ obs' = IF run.tag # "none" THEN [obs EXCEPT !.steps = @ + 1] ELSE obs
    /\ NoTopCall
    /\ sub' = [sub EXCEPT !.returned = TRUE]
    /\ UNCHANGED << p, simVars, r1_min, r2_min, current_step, finished, lists, fs,
                    err, log, x_acc >>

----------------------------------------------------------------------------
(* simulator.run_simulation(dt, t_end, method, ..., N_save, inds, eta,     *)
(* N_sub_max); the output file and the progress bar are left out           *)

\* t_end: 0, and times that make N_step = ceil(t_end/dt) each of 1..MaxNStep;
\* N_save is 1, or 2 in the longest run
TEnds(dt) == {0} \cup { k * dt - dt \div 2 : k \in 1..MaxNStep }

\* (eta, inds) of a run: full steps, full steps with a mask, adaptive steps
RunModes == { [eta |-> -1, inds |-> NoneV], [eta |-> -1, inds |-> Some({1})],
              [eta |-> 4, inds |-> NoneV] }

ZeroSeq(n) == [k \in 1..n |-> 0]

\* np.linspace(0, t_end, N_step)[::N_save]
TsOf(t_end, N_step, N_save) ==
    [k \in 1..CeilDiv(N_step, N_save) |->
        IF N_step = 1 THEN 0 ELSE FDiv(t_end * ((k - 1) * N_save), N_step - 1)]

\* lines 300-358
CallRunSimulation(dt, t_end, method, N_save, inds, eta, N_sub_max) ==
    LET c == [name |-> "run_simulation", dt |-> dt, t_end |-> t_end,
              method |-> method, N_save |-> N_save, inds |-> inds, eta |-> eta,
              N_sub_max |-> N_sub_max]
        N_step == CeilDiv(t_end, dt)
        N_out  == CeilDiv(N_step, N_save)
    IN
    /\ session = "run"
    /\ N_save = 1 \/ N_step = MaxNStep
    \* a run can be repeated once, with the same arguments
    /\ calls > 0 => c = last /\ calls < 2
    /\ TopCall(c)
    /\ current_step' = Some(0)
    /\ lists' = [N_out |-> N_out, N_save |-> N_save,
                 ts |-> TsOf(t_end, N_step, N_save),
                 M1_list |-> ZeroSeq(N_out), M2_list |-> ZeroSeq(N_out),
                 xBH1_list |-> ZeroSeq(N_out), vBH1_list |-> ZeroSeq(N_out),
                 xBH2_list |-> ZeroSeq(N_out), vBH2_list |-> ZeroSeq(N_out)]
    /\ r1_min' = NoneV
    /\ r2_min' = NoneV
    /\ finished' = FALSE
    /\ run' = [tag |-> "run_simulation", pc |-> 1, it |-> 0, N_step |-> N_step,
               dt |-> dt, t_end |-> t_end, method |-> method, N_save |-> N_save,
               inds |-> inds, eta |-> eta, N_sub_max |-> N_sub_max]
    /\ obs' = [NoObs EXCEPT !.N_step = N_step, !.writes = ZeroSeq(N_out),
                            !.starts = IF N_step > 0 THEN << Bodies(p) >> ELSE << >>]
    /\ err' = "none"
    /\ log' = << >>
    /\ sub' = NoSub
    /\ UNCHANGED << p, simVars, fs, ad, x_acc >>

\* check_state is None: nothing is called
RunNoHook ==
    /\ AtStatement("hook")
    /\ check_state = "None"
    /\ run' = RunAdvance(run)
    /\ NoTopCall
    /\ UNCHANGED << p, simVars, r1_min, r2_min, runVars, fs, ad, err, log, x_acc, sub >>

\* self.check_state(self) returns and has changed nothing
HookReturns ==
    /\ AtStatement("hook")
    /\ check_state = "hook"
    /\ obs' = [obs EXCEPT !.hooks = @ + 1]
    /\ run' = RunAdvance(run)
    /\ NoTopCall
    /\ UNCHANGED << p, simVars, r1_min, r2_min, current_step, finished, lists, fs,
                    ad, err, log, x_acc, sub >>

\* the particle set without its last tracer
RemoveTracer(q) ==
    [q EXCEPT !.N_DM = @ - 1,
              !.M_DM = SubSeq(@, 1, Len(@) - 1),
              !.xDM = SubSeq(@, 1, Len(@) - 1),
              !.vDM = SubSeq(@, 1, Len(@) - 1)]

\* self.check_state(self) removes a tracer (the use the docstring names);
\* this hook does so while the set is complete
HookRemovesTracer ==
    /\ AtStatement("hook")
    /\ check_state = "hook"
    /\ p.N_DM > 0
    /\ p.N_DM = MaxNDM
    /\ p' = RemoveTracer(p)
    /\ obs' = [obs EXCEPT !.hooks = @ + 1]
    /\ run' = RunAdvance(run)
    /\ NoTopCall
    /\ UNCHANGED << simVars, r1_min, r2_min, current_step, finished, lists, fs, ad,
                    err, log, x_acc, sub >>

\* self.check_state(self) raises
HookAborts ==
    /\ AtStatement("hook")
    /\ check_state = "hook"
    /\ obs' = [obs EXCEPT !.hooks = @ + 1]
    /\ Raise("Abort")
    /\ NoTopCall
    /\ UNCHANGED << p, simVars, r1_min, r2_min, current_step, finished, lists, log,
                    x_acc, sub >>

\* xs with entry i_out (counted from 0) set to v
Put(xs, i_out, v) == [xs EXCEPT ![i_out + 1] = v]

\* lines 405-416
RunSave ==
    /\ AtStatement("save")
    /\ LET due   == run.it % lists.N_save = 0
           i_out == run.it \div lists.N_save
       IN
       IF due /\ i_out >= lists.N_out
       THEN \* index i_out is out of bounds for axis 0 with size N_out
            /\ Raise("IndexError")
            /\ UNCHANGED << lists, obs >>
       ELSE /\ lists' = IF due
                        THEN [lists EXCEPT !.M1_list = Put(@, i_out, p.M_1),
                                           !.M2_list = Put(@, i_out, p.M_2),
                                           !.xBH1_list = Put(@, i_out, p.xBH1),
                                           !.vBH1_list = Put(@, i_out, p.vBH1),
                                           !.xBH2_list = Put(@, i_out, p.xBH2),
                                           !.vBH2_list = Put(@, i_out, p.vBH2)]
                        ELSE lists
            /\ obs' = IF due
                      THEN [obs EXCEPT !.writes[i_out + 1] = @ + 1,
                                       !.saved_it = run.it,
                                       !.saved_steps = obs.steps]
                      ELSE obs
            /\ run' = RunAdvance(run)
            /\ UNCHANGED << fs, ad, err >>
    /\ NoTopCall
    /\ UNCHANGED << p, simVars, r1_min, r2_min, current_step, finished, log, x_acc,
                    sub >>

\* lines 438-439: self.full_step(dt, method, inds)
RunFullStep ==
    /\ AtStatement("step")
    /\ run.eta < 0
    /\ fs' = FullStepFrame(run.dt, run.method, run.inds)
    /\ obs' = [obs EXCEPT !.full = @ + 1]
    /\ log' = << >>
    /\ NoTopCall
    /\ UNCHANGED << p, simVars, r1_min, r2_min, current_step, finished, lists, ad, run,
                    err, x_acc, sub >>

\* lines 440-441: self.adaptive_step(dt, method, eta, N_sub_max)
RunAdaptiveStep ==
    /\ AtStatement("step")
    /\ run.eta >= 0
    /\ AdaptiveBegin(run.dt, run.method, run.eta, run.N_sub_max)
    /\ obs' = [obs EXCEPT !.adaptive = @ + 1]
    /\ log' = << >>
    /\ NoTopCall
    /\ UNCHANGED << simVars, current_step, finished, lists >>

\* line 445
RunIncrement ==
    /\ AtStatement("incr")
    /\ current_step' = Some(current_step.v + 1)
    /\ obs' = [obs EXCEPT !.iters = @ + 1,
                          !.starts = IF RunAdvance(run).it > run.it
                                        /\ ~LoopEnds(RunAdvance(run))
                                     THEN Append(@, Bodies(p)) ELSE @]
    /\ run' = RunAdvance(run)
    /\ NoTopCall
    /\ UNCHANGED << p, simVars, r1_min, r2_min, finished, lists, fs, ad, err, log,
                    x_acc, sub >>

\* the loop is over: line 475, self.finished = True
RunFinish ==
    /\ run.tag = "run_simulation"
    /\ fs = NoFrame
    /\ ad = NoFrame
    /\ LoopEnds(run)
    /\ finished' = TRUE
    /\ run' = NoFrame
    /\ NoTopCall
    /\ UNCHANGED << p, simVars, r1_min, r2_min, current_step, lists, obs, fs, ad, err,
                    log, x_acc, sub >>

Next ==
    \/ \E dt \in StepDts, inds \in IndsValues : CallFullStep(dt, scheme, inds)
    \/ DoXstep
    \/ DoVstep
    \/ DoUpdateAcceleration
    \/ StepTypeError
    \/ ForceValueError
    \/ FullStepReturn
    \/ \E h \in StageHs : CallXstep(h)
    \/ \E h \in StageHs : CallVstep(h)
    \/ \E h \in StageHs : CallXstepOut(h)
    \/ \E h \in StageHs : CallVstepOut(h)
    \/ CallUpdateAcceleration
    \/ \E eta \in EtaValues : CallAdaptiveStep(AdaptiveDt, scheme, eta, MaxNSubMax)
    \/ AdaptiveSubStep
    \/ AdaptiveReturn
    \/ \E t_end \in TEnds(AdaptiveDt), N_save \in {1, 2}, m \in RunModes :
          CallRunSimulation(AdaptiveDt, t_end, scheme, N_save, m.inds, m.eta,
                            MaxNSubMax)
    \/ RunNoHook
    \/ HookReturns
    \/ HookRemovesTracer
    \/ HookAborts
    \/ RunSave
    \/ RunFullStep
    \/ RunAdaptiveStep
    \/ RunIncrement
    \/ RunFinish

Spec == Init /\ [][Next]_vars

----------------------------------------------------------------------------
(* simulator.calc_acc called on its own, for one tracer: M_eff, the unit   *)
(* vector dx (one axis), r_sq = r*r, r_soft_sq = r_soft*r_soft and method  *)

ProbeArgs ==
    { [tag |-> "calc_acc", M_eff |-> M, dx |-> dx, r |-> r, r_soft |-> rs,
       method |-> mth, returned |-> FALSE, raised |-> FALSE, acc_DM |-> 0] :
      M \in {1, 3}, dx \in {-1, 1}, r \in 0..MaxR, rs \in 0..MaxR,
      mth \in Kernels \cup {"no_such_kernel"} }

\* a simulator of a set without secondary and tracers, left alone, and the
\* arguments of one call of calc_acc
InitCalcAcc ==
    /\ probe \in ProbeArgs
    /\ session = "steps"
    /\ scheme = "PEFRL"
    /\ p0 \in ParticleSets
    /\ p0.M_2 = 0 /\ p0.N_DM = 0 /\ p0.dynamic_BH
    /\ p = deepcopy(p0)
    /\ soft_method = "empty_shell"
    /\ r_soft_sq2 = 0
    /\ r_soft_sq1 = r_soft_sq2
    /\ check_state = "None"
    /\ lists = NoLists
    /\ obs = NoObs
    /\ r1_min = Unset
    /\ r2_min = Unset
    /\ current_step = Unset
    /\ finished = FALSE
    /\ fs = NoFrame
    /\ ad = NoFrame
    /\ run = NoFrame
    /\ err = "none"
    /\ calls = 0
    /\ last = NoFrame
    /\ prev = NoFrame
    /\ log = << >>
    /\ x_acc = NoneV
    /\ pre = p
    /\ pre2 = p
    /\ sub = NoSub

\* calc_acc returns acc_DM
CalcAccReturns ==
    /\ probe.tag = "calc_acc"
    /\ ~probe.returned /\ ~probe.raised
    /\ ~calc_acc_raises(probe.method)
    /\ probe' = [probe EXCEPT
                   !.returned = TRUE,
                   !.acc_DM = calc_acc(probe.M_eff, probe.dx, probe.r * probe.r,
                                       probe.r_soft * probe.r_soft, probe.method)]
    /\ UNCHANGED << p, p0, r_soft_sq1, r_soft_sq2, soft_method, check_state, r1_min,
                    r2_min, current_step, finished, fs, ad, run, err, calls, last,
                    log, x_acc, pre, pre2, prev, sub, lists, obs, session, scheme >>

\* calc_acc raises ValueError("Invalid softening method:")
CalcAccRaises ==
    /\ probe.tag = "calc_acc"
    /\ ~probe.returned /\ ~probe.raised
    /\ calc_acc_raises(probe.method)
    /\ probe' = [probe EXCEPT !.raised = TRUE]
    /\ UNCHANGED << p, p0, r_soft_sq1, r_soft_sq2, soft_method, check_state, r1_min,
                    r2_min, current_step, finished, fs, ad, run, err, calls, last,
                    log, x_acc, pre, pre2, prev, sub, lists, obs, session, scheme >>

NextCalcAcc == CalcAccReturns \/ CalcAccRaises

SpecCalcAcc == InitCalcAcc /\ [][NextCalcAcc]_vars

----------------------------------------------------------------------------
(* What the properties below read off the state *)

\* c is a call of `name`
IsCall(c, name) == c # NoFrame /\ c.name = name

\* the last top-level call was `name` and it has ended (returned or raised)
Ended(name) == Idle /\ IsCall(last, name)

\* positions and velocities of both bodies and all tracers
PosVel(q) == << q.xBH1, q.vBH1, q.xBH2, q.vBH2, q.xDM, q.vDM >>

\* no position or velocity is non-finite
Finite(q) ==
    /\ NaN \notin {q.xBH1, q.vBH1, q.xBH2, q.vBH2}
    /\ \A i \in 1..Len(q.xDM) : q.xDM[i] # NaN /\ q.vDM[i] # NaN

\* what full_step(dt) logs when it executes all of `stages`
Executed(stages, dt) ==
    [i \in 1..Len(stages) |->
        [op |-> stages[i].op, c |-> stages[i].c, h |-> StageH(stages[i].c, dt)]]

\* the sum of the sub-intervals the logged calls of `op` were given
SumH(op) == SumSeq([i \in 1..Len(log) |-> IF log[i].op = op THEN log[i].h ELSE 0])

\* the logged statements as (operation, sub-interval)
LogStages == [i \in 1..Len(log) |-> << log[i].op, log[i].h >>]

----------------------------------------------------------------------------
(* Properties *)

\* C1: in every scheme of full_step each kick (vstep) directly follows a
\* force evaluation (update_acceleration), with no drift between them: in the
\* statements of each branch, in every executed sequence, and so that at the
\* moment of a kick the accelerations were computed from the current positions
C1_KickFollowsForce ==
    /\ \A m \in Methods : \A i \in 1..Len(Scheme(m)) :
          Scheme(m)[i].op = "vstep" =>
              i > 1 /\ Scheme(m)[i - 1].op = "update_acceleration"
    /\ \A i \in 1..Len(log) :
          log[i].op = "vstep" => i > 1 /\ log[i - 1].op = "update_acceleration"
    /\ (fs.tag = "full_step" /\ fs.todo # << >> /\ Head(fs.todo).op = "vstep") =>
          x_acc = Some(Positions(p)) /\ IsVal(p.dvdtDM)
    /\ (fs.tag = "full_step" /\ log # << >> /\ log[Len(log)].op = "vstep") =>
          x_acc = Some(Positions(p))

\* C1 witness: a full step has just made its second (or a later) kick on a
\* set with tracers that have moved, with accelerations from the current
\* positions
C1_Witness ==
    /\ fs.tag = "full_step"
    /\ Len(log) >= 6
    /\ log[Len(log)].op = "vstep"
    /\ p.N_DM > 0
    /\ p.xDM # pre.xDM
    /\ x_acc = Some(Positions(p))

\* C2: one call full_step(dt, scheme), with a known kernel, returns having
\* executed the scheme's stages in order with its coefficients, the drift
\* sub-intervals summing to dt and the kick sub-intervals summing to dt
C2_AdvancesByDt ==
    (Ended("full_step") /\ soft_method \in Kernels) =>
        /\ err = "none"
        /\ log = Executed(Scheme(last.method), last.dt)
        /\ SumH("xstep") = last.dt
        /\ SumH("vstep") = last.dt

\* C3: full_step with "DKD" runs to completion executing exactly
\* drift(dt/2), force, kick(dt), drift(dt/2), and with "KDK" exactly
\* force, kick(dt/2), drift(dt), force, kick(dt/2)
C3_SecondOrderSchemesRun ==
    (Ended("full_step") /\ soft_method \in Kernels /\ last.method \in {"DKD", "KDK"}) =>
        /\ err = "none"
        /\ LogStages =
             IF last.method = "DKD"
             THEN << << "xstep", last.dt \div 2 >>, << "update_acceleration", 0 >>,
                     << "vstep", last.dt >>, << "xstep", last.dt \div 2 >> >>
             ELSE << << "update_acceleration", 0 >>, << "vstep", last.dt \div 2 >>,
                     << "xstep", last.dt >>, << "update_acceleration", 0 >>,
                     << "vstep", last.dt \div 2 >> >>

C5_MaskedTracersUnchanged ==
    (Ended("full_step") /\ IsVal(last.inds) /\ soft_method \in Kernels) =>
        \A i \in 1..p.N_DM :
            i \notin last.inds.v => p.xDM[i] = pre.xDM[i] /\ p.vDM[i] = pre.vDM[i]

\* C6: with dynamic_BH false the primary's position and velocity are the
\* initial ones in every state, through stages (xstep, vstep, xstep_out,
\* vstep_out), full steps, adaptive steps and runs, while a drift or a kick
\* still updates the secondary and the tracers
C6_StaticPrimary ==
    /\ ~p.dynamic_BH => p.xBH1 = p0.xBH1 /\ p.vBH1 = p0.vBH1
    /\ Ended("xstep") =>
          /\ p.xBH2 = FAdd(pre.xBH2, FMul(pre.vBH2, last.h))
          /\ p.xDM = AddScaled(pre.xDM, pre.vDM, last.h)
    /\ (Ended("vstep") /\ err = "none") =>
          /\ p.vBH2 = FAdd(pre.vBH2, FMul(pre.dvdtBH2.v, last.h))
          /\ p.vDM = AddScaled(pre.vDM, pre.dvdtDM.v, last.h)

\* C6 witness: a static primary after a drift stage followed by a full step
\* that returned; the secondary and the tracers have moved and changed speed
C6_Witness ==
    /\ ~p.dynamic_BH
    /\ IsCall(prev, "xstep")
    /\ Ended("full_step")
    /\ err = "none"
    /\ p.N_DM > 0
    /\ p.xBH2 # p0.xBH2 /\ p.vBH2 # p0.vBH2
    /\ p.xDM # p0.xDM /\ p.vDM # p0.vDM
    /\ p.xBH1 = p0.xBH1 /\ p.vBH1 = p0.vBH1

\* C7: an adaptive_step with tracers and dt_opt < dt plans
\* N_sub = min(ceil(dt/dt_opt), N_sub_max) sub-steps, and one with
\* dt_opt >= dt plans one; N_sub never exceeds N_sub_max; each sub-step is a
\* full_step of size dt/N_sub that executes the whole scheme; the sizes sum to
\* dt; and the adaptive_step returns after exactly N_sub of them
C7_AdaptiveSubSteps ==
    /\ ad.tag = "adaptive_step" =>
          /\ sub.N_sub = ad.N_sub
          /\ sub.done = ad.i
          /\ fs.tag = "full_step" =>
                fs.dt = sub.dt_sub /\ fs.method = ad.method /\ sub.done < sub.N_sub
          /\ (fs = NoFrame /\ sub.done > 0) =>
                log = Executed(Scheme(ad.method), sub.dt_sub)
    /\ sub.N_sub > 0 =>
          /\ sub.done <= sub.N_sub
          /\ sub.N_sub <= sub.N_sub_max
          /\ sub.dt_sub * sub.N_sub = sub.dt
          /\ (sub.tracers /\ sub.dt_opt < sub.dt) =>
                sub.N_sub = IF CeilDiv(sub.dt, sub.dt_opt) < sub.N_sub_max
                            THEN CeilDiv(sub.dt, sub.dt_opt) ELSE sub.N_sub_max
          /\ (sub.tracers /\ sub.dt_opt >= sub.dt) =>
                sub.N_sub = 1 /\ sub.dt_sub = sub.dt
          /\ sub.returned => sub.done = sub.N_sub

\* C7 witness: an adaptive_step with tracers whose ceil(dt/dt_opt) exceeds
\* N_sub_max has returned after N_sub_max complete sub-steps
C7_Witness ==
    /\ sub.returned
    /\ sub.tracers
    /\ sub.dt_opt < sub.dt
    /\ CeilDiv(sub.dt, sub.dt_opt) > sub.N_sub_max
    /\ sub.N_sub = MaxNSubMax
    /\ sub.done = sub.N_sub
    /\ log = Executed(Scheme(scheme), sub.dt_sub)

\* C8: inside the loop of run_simulation finished is false, N_step is
\* ceil(t_end/dt), current_step counts the completed iterations and each
\* iteration begins one macro step (a full_step when eta < 0, an
\* adaptive_step otherwise); finished is true only once N_step iterations,
\* each with its macro step, are complete, and then current_step = N_step
C8_RunLoop ==
    /\ run.tag = "run_simulation" =>
          /\ ~finished
          /\ run.N_step = CeilDiv(run.t_end, run.dt)
          /\ obs.N_step = run.N_step
          /\ current_step = Some(obs.iters)
          /\ obs.iters <= obs.steps /\ obs.steps <= obs.iters + 1
          /\ obs.steps <= obs.full + obs.adaptive
          /\ obs.full + obs.adaptive <= obs.steps + 1
          /\ obs.full + obs.adaptive <= run.N_step
          /\ (run.eta < 0 => obs.adaptive = 0)
          /\ (run.eta >= 0 => obs.full = 0)
    /\ finished =>
          /\ run = NoFrame
          /\ IsCall(last, "run_simulation")
          /\ LET N == CeilDiv(last.t_end, last.dt) IN
                /\ obs.iters = N
                /\ obs.steps = N
                /\ current_step = Some(N)
                /\ IF last.eta < 0 THEN obs.full = N /\ obs.adaptive = 0
                   ELSE obs.adaptive = N /\ obs.full = 0

\* C8 witness: a run of MaxNStep adaptive macro steps on a set with tracers
\* has finished
C8_Witness ==
    /\ finished
    /\ obs.N_step = MaxNStep
    /\ obs.adaptive = MaxNStep
    /\ current_step = Some(MaxNStep)
    /\ p.N_DM > 0
    /\ PosVel(p) # PosVel(pre)

\* C9: with a check_state hook, the hook has been called once for every
\* iteration begun and before that iteration's macro step begins; when it is
\* called current_step is the number of macro steps completed; if it raises,
\* the run ends with no macro step begun and not completed and finished
\* false; a finished run has called it N_step times
C9_HookPerIteration ==
    check_state = "hook" =>
        LET begun == obs.full + obs.adaptive IN
        /\ begun <= obs.hooks
        /\ obs.hooks <= obs.steps + 1
        /\ (obs.hooks = obs.steps + 1 /\ IsVal(current_step)) =>
              current_step = Some(obs.steps)
        /\ err = "Abort" =>
              /\ Idle
              /\ ~finished
              /\ begun = obs.steps
              /\ obs.hooks = obs.steps + 1
              /\ current_step = Some(obs.steps)
        /\ finished => obs.hooks = obs.N_step

\* C9 witness: the hook raised at iteration 1, after one complete macro step
C9_Witness ==
    /\ check_state = "hook"
    /\ err = "Abort"
    /\ obs.steps = 1
    /\ obs.hooks = 2
    /\ current_step = Some(1)
    /\ ~finished
    /\ PosVel(p) # PosVel(pre)

\* C10: when a full_step ends with the error of an unknown softening kernel,
\* no drift or kick has changed a position or a velocity
C10_UnknownKernelBeforeStepping ==
    (Ended("full_step") /\ soft_method \notin Kernels /\ err = "ValueError") =>
        PosVel(p) = PosVel(pre)

\* C11: a full_step or a run_simulation called with a method that is not
\* DKD, KDK, FR or PEFRL ends in an error, and finished is not true after it
C11_UnknownSchemeIsError ==
    (/\ Ended("full_step") \/ (Ended("run_simulation") /\ obs.N_step >= 1)
     /\ last.method \notin Methods) =>
        err # "none" /\ ~finished

\* C12: the positions, velocities and masses of the particle set the caller
\* gave to the constructor are the ones it was given with, in every state of
\* every sequence of stage calls, full steps, adaptive steps and runs
C12_CallerSetUnchanged ==
    /\ PosVel(particle_set) = PosVel(p0)
    /\ << particle_set.M_1, particle_set.M_2, particle_set.M_DM, particle_set.N_DM >>
         = << p0.M_1, p0.M_2, p0.M_DM, p0.N_DM >>

\* C12 witness: a run has finished and has moved the bodies and the tracers
\* of the simulator's set, which is another object than the caller's
C12_Witness ==
    /\ finished
    /\ obs.steps >= 1
    /\ p.id # p0.id
    /\ p.N_DM > 0
    /\ p.xBH2 # p0.xBH2 /\ p.vBH2 # p0.vBH2
    /\ p.xDM # p0.xDM /\ p.vDM # p0.vDM
    /\ PosVel(particle_set) = PosVel(p0)

\* C13: under "empty_shell" calc_acc returns exactly zero for r < r_soft and
\* the unsoftened Newtonian -G*M*dx/r^2 for r >= r_soft (the boundary
\* included); under "uniform" it returns the inner -G*M*dx*(r/r_soft)/r_soft^2
\* for r <= r_soft (the boundary included) and the Newtonian value beyond
C13_ShellAndUniformBoundary ==
    (probe.tag = "calc_acc" /\ probe.returned /\ probe.r_soft > 0) =>
        LET GMdx == G_N * probe.M_eff * probe.dx
            newton == FDiv(-GMdx, probe.r * probe.r)
            inner == FDiv(-(GMdx * probe.r), probe.r_soft * probe.r_soft * probe.r_soft)
        IN
        /\ probe.method = "empty_shell" =>
              probe.acc_DM = IF probe.r < probe.r_soft THEN 0 ELSE newton
        /\ probe.method = "uniform" =>
              probe.acc_DM = IF probe.r <= probe.r_soft THEN inner ELSE newton

\* C14: whenever adaptive_step computes dt_opt for a set with tracers, the
\* r2_min it uses is defined and equals the smallest tracer-secondary distance
\* of the positions the state has at that moment
C14_R2MinCurrent ==
    sub.asked => (IsVal(sub.r2) /\ sub.r2 = sub.r2_now)

\* C15: every history entry is recorded after the macro step of its own
\* iteration (hook, step, record): the entry written in iteration it is
\* written when it + 1 macro steps are complete, so that after a run with
\* N_save = 1 the last entry holds the final state of the two bodies
C15_RecordAfterStep ==
    /\ obs.saved_it >= 0 => obs.saved_steps = obs.saved_it + 1
    /\ (finished /\ obs.N_step >= 1 /\ lists.N_save = 1) =>
          << lists.M1_list[lists.N_out], lists.M2_list[lists.N_out],
             lists.xBH1_list[lists.N_out], lists.vBH1_list[lists.N_out],
             lists.xBH2_list[lists.N_out], lists.vBH2_list[lists.N_out] >> = Bodies(p)

C20_TimeLabels ==
    (IsCall(last, "run_simulation") /\ last.method \in Methods /\ obs.N_step > 1) =>
        \A k \in 0..(lists.N_out - 1) :
            obs.writes[k + 1] = 1 => lists.ts[k + 1] = k * lists.N_save * last.dt

\* M_1*a1 + M_2*a2 + sum_i M_DM[i]*a[i]
Weighted(q, a1, a2, a) ==
    FAdd(FAdd(FMul(q.M_1, a1), FMul(q.M_2, a2)),
         SumSeq([i \in 1..Len(a) |-> FMul(q.M_DM[i], a[i])]))

\* C16: with both bodies dynamic and M_2 > 0, the accelerations a force
\* evaluation stored satisfy M_1*dvdtBH1 + M_2*dvdtBH2 + sum_i
\* M_DM[i]*dvdtDM[i] = 0, and the total momentum M_1*vBH1 + M_2*vBH2 + sum_i
\* M_DM[i]*vDM[i] of the set is the one it had when the caller's latest call
\* of vstep, full_step, adaptive_step or run_simulation began
C16_ThirdLaw ==
    (p.dynamic_BH /\ p.M_2 > 0) =>
        /\ (IsVal(p.dvdtBH1) /\ IsVal(p.dvdtBH2) /\ IsVal(p.dvdtDM)
            /\ Len(p.dvdtDM.v) = p.N_DM) =>
              Weighted(p, p.dvdtBH1.v, p.dvdtBH2.v, p.dvdtDM.v) = 0
        /\ (/\ \/ IsCall(last, "vstep") \/ IsCall(last, "full_step")
                \/ IsCall(last, "adaptive_step") \/ IsCall(last, "run_simulation")
            /\ p.N_DM = pre.N_DM) =>
              Weighted(p, p.vBH1, p.vBH2, p.vDM) = Weighted(pre, pre.vBH1, pre.vBH2, pre.vDM)

\* C17: the accelerations a force evaluation stored are those of the masses
\* M_1 + M_2 (primary) and M_1*M_2/(M_1 + M_2) (secondary) when the primary
\* is static, and of M_1 and M_2 when it is dynamic: in both body-tracer
\* kernels, in the body-body acceleration and in the reaction on the secondary
C17_EffectiveMasses ==
    (x_acc = Some(Positions(p)) /\ IsVal(p.dvdtDM) /\ IsVal(p.dvdtBH2)
     /\ Len(p.dvdtDM.v) = p.N_DM) =>
        LET m1 == IF p.dynamic_BH THEN p.M_1 ELSE p.M_1 + p.M_2
            m2 == IF p.dynamic_BH THEN p.M_2 ELSE (p.M_1 * p.M_2) \div (p.M_1 + p.M_2)
            d1(i) == FAdd(p.xDM[i], FNeg(p.xBH1))
            d2(i) == FAdd(p.xDM[i], FNeg(p.xBH2))
            d12 == FAdd(p.xBH1, FNeg(p.xBH2))
            a1 == [i \in 1..p.N_DM |->
                     calc_acc(m1, Unit(d1(i)), Sq(d1(i)), r_soft_sq1, "uniform")]
            a2 == [i \in 1..p.N_DM |->
                     IF p.M_2 > 0
                     THEN calc_acc(m2, Unit(d2(i)), Sq(d2(i)), r_soft_sq2, soft_method)
                     ELSE 0]
            aB == FDiv(FNeg(FMul(G_N * m2, Unit(d12))), Sq(d12))
            sum2 == SumSeq([i \in 1..p.N_DM |-> FMul(p.M_DM[i], a2[i])])
        IN
        /\ p.dvdtDM.v = [i \in 1..p.N_DM |-> FAdd(a1[i], a2[i])]
        /\ p.M_2 > 0 =>
              p.dvdtBH2.v = FAdd(FNeg(FDiv(FMul(m1, aB), m2)), FNeg(FDiv(sum2, m2)))

\* C17 witness: a full step has just evaluated the forces on a set with a
\* static primary, tracers and a secondary that has moved; the stored
\* accelerations are finite, not all zero, and not the ones M_1 and M_2 give
C17_Witness ==
    /\ ~p.dynamic_BH /\ p.M_2 > 0 /\ p.N_DM = MaxNDM
    /\ fs.tag = "full_step"
    /\ log # << >> /\ log[Len(log)].op = "update_acceleration"
    /\ p.xBH2 # p0.xBH2
    /\ x_acc = Some(Positions(p))
    /\ IsVal(p.dvdtDM) /\ IsVal(p.dvdtBH2)
    /\ p.dvdtBH2.v \notin {0, NaN}
    /\ \A i \in 1..p.N_DM : p.dvdtDM.v[i] # NaN
    /\ p.dvdtBH2.v # update_acceleration([p EXCEPT !.dynamic_BH = TRUE], r_soft_sq1,
                                         r_soft_sq2, soft_method).dvdtBH2.v

\* no stored acceleration is non-finite
AccFinite(q) ==
    /\ IsVal(q.dvdtBH1) => q.dvdtBH1.v # NaN
    /\ IsVal(q.dvdtBH2) => q.dvdtBH2.v # NaN
    /\ IsVal(q.dvdtDM) => \A i \in 1..Len(q.dvdtDM.v) : q.dvdtDM.v[i] # NaN

\* C18: a zero separation ends the force evaluation in an error, so no
\* non-finite acceleration is ever stored in the particle set and no velocity
\* becomes non-finite through a kick
C18_NoNonFiniteStored ==
    /\ AccFinite(p)
    /\ NaN \notin {p.vBH1, p.vBH2}
    /\ \A i \in 1..Len(p.vDM) : p.vDM[i] # NaN

====
